---- MODULE Spec2Model ----
(***************************************************************************)
(* Model of dask/obj.py: the Array object holding a dask (task graph), the *)
(* block-wise graph constructor atop, the wrap of an in-memory array, the  *)
(* blaze lowering rules built on atop, the process-wide name generator and *)
(* the out-of-core store tasks.                                            *)
(*                                                                         *)
(* Representation.                                                         *)
(*   key (name, i, j)      <<name, <<i, j>>>>                              *)
(*   key  name  (raw data) <<name>>                                        *)
(*   task (func, a1, a2)   [func, args, ind]: args[p] is the flattened     *)
(*                         row-major list of the keys handed over for the  *)
(*                         p-th input; ind holds the slices of a getitem.  *)
(*   a function            <<fname, baked-in parameters>>, the parameters  *)
(*                         a list of lists of integers                    *)
(*   a label               a string; range(n) labels are "0", "1", ...     *)
(* dask.array.top, broadcast_dimensions and getem are imported by obj.py   *)
(* from dask/array.py; they are modelled from the specification text.      *)
(* int(ceil(a / b)) is read with true division.                            *)
(***************************************************************************)
EXTENDS Integers, Sequences, FiniteSets, TLC

VARIABLES arrays, count, last, gen, threads, sink, stored

vars == <<arrays, count, last, gen, threads, sink, stored>>

\* ------------------------------------------------------------------ bounds
MaxShape == 3
MaxShape2 == 2
MaxBlock == 2
MaxWraps == 2
MaxNames == 3
NThreads == 3
MaxReq == 2
MaxRows == 1

Ndims == {1, 2}
InLabels == {"i", "j"}
OutLabels == {"i", "j", "k"}
Fn(name, params) == <<name, params>>
Funcs == {Fn("f", <<<<5>>>>), Fn("f", <<<<13>>>>)}
ActFuncs == {Fn("f", <<<<5>>>>)}

\* ----------------------------------------------------------------- helpers
Range(s) == {s[k] : k \in DOMAIN s}

RECURSIVE ConcatAll(_)
ConcatAll(ss) == IF ss = <<>> THEN <<>> ELSE Head(ss) \o ConcatAll(Tail(ss))

Injective(s) == \A p, q \in DOMAIN s : p # q => s[p] # s[q]

Tuples(S, n) == {s \in [1..n -> S] : Injective(s)}

Pos(s, v) == CHOOSE k \in DOMAIN s : s[k] = v

\* toolz.merge of two dicts: the later one wins on a common key
merge2(d1, d2) ==
    [k \in (DOMAIN d1) \cup (DOMAIN d2) |-> IF k \in DOMAIN d2 THEN d2[k] ELSE d1[k]]

RECURSIVE merge(_)
merge(ds) == IF ds = <<>> THEN <<>>
             ELSE IF Len(ds) = 1 THEN ds[1]
             ELSE merge2(merge(SubSeq(ds, 1, Len(ds) - 1)), ds[Len(ds)])

\* ------------------------------------------------------------------- Array
Key(name, c) == <<name, c>>
RawKey(name) == <<name>>

Array(dask, name, shape, blockshape) ==
    [dask |-> dask, name |-> name, shape |-> shape, blockshape |-> blockshape]

CeilDiv(a, b) == IF a % b = 0 THEN a \div b ELSE (a \div b) + 1

\* numblocks with the operands of the division exchanged
numblocksSwapped(a) == [k \in 1..Len(a.shape) |-> CeilDiv(a.blockshape[k], a.shape[k])]

numblocks(a) == [k \in 1..Len(a.shape) |-> CeilDiv(a.shape[k], a.blockshape[k])]

ndim(a) == Len(a.shape)

\* Array.keys, flattened (core.flatten) in its row-major nesting order
RECURSIVE keys(_, _)
keys(a, args) ==
    IF ndim(a) = 0 THEN <<Key(a.name, <<>>)>>
    ELSE LET ind == Len(args) IN
         IF ind + 1 = ndim(a)
         THEN [i \in 1..numblocks(a)[ind + 1] |-> Key(a.name, Append(args, i - 1))]
         ELSE ConcatAll([i \in 1..numblocks(a)[ind + 1] |-> keys(a, Append(args, i - 1))])

\* ------------------------------------------------- dask.array (spec text)
\* the values the inputs contribute to label l; argpairs[p] = <<input, labels>>
Contributed(argpairs, vals, l) ==
    UNION {{vals[p][q] : q \in {r \in DOMAIN argpairs[p][2] : argpairs[p][2][r] = l}}
           : p \in DOMAIN argpairs}

Reconcilable(S) == Cardinality(S) = 1 \/ Cardinality(S \ {1}) = 1

Reconcile(S) == IF Cardinality(S) = 1 THEN CHOOSE v \in S : TRUE
                ELSE CHOOSE v \in S \ {1} : TRUE

LabelsOf(argpairs) == UNION {Range(argpairs[p][2]) : p \in DOMAIN argpairs}

broadcast_dimensions(argpairs, vals) ==
    IF \A l \in LabelsOf(argpairs) : Reconcilable(Contributed(argpairs, vals, l))
    THEN [ok |-> TRUE,
          dims |-> [l \in LabelsOf(argpairs) |-> Reconcile(Contributed(argpairs, vals, l))]]
    ELSE [ok |-> FALSE, dims |-> <<>>]

\* row-major product of a list of value lists
RECURSIVE Product(_)
Product(lists) ==
    IF lists = <<>> THEN << <<>> >>
    ELSE LET rest == Product(Tail(lists))
             hd == Head(lists)
         IN ConcatAll([i \in 1..Len(hd) |-> [r \in 1..Len(rest) |-> <<hd[i]>> \o rest[r]]])

Upto(n) == [v \in 1..n |-> v - 1]

RowMajor(counts) == Product([k \in 1..Len(counts) |-> Upto(counts[k])])

\* the block coordinates of one input for the output coordinate c: a dimension
\* whose label is in out_ind reads c at that label's position, any other
\* dimension ranges over all blocks of its label
InputCoords(ind, out_ind, c, dims) ==
    Product([q \in 1..Len(ind) |->
                IF ind[q] \in Range(out_ind) THEN <<c[Pos(out_ind, ind[q])]>>
                ELSE Upto(dims[ind[q]])])

Task(func, args, ind) == [func |-> func, args |-> args, ind |-> ind]

\* argpairs[p] = <<name, labels>>, nbs[name] = numblocks of that input
top(func, out, out_ind, argpairs, nbs) ==
    LET bd == broadcast_dimensions(argpairs, [p \in DOMAIN argpairs |-> nbs[argpairs[p][1]]])
    IN IF ~bd.ok \/ \E l \in Range(out_ind) : l \notin DOMAIN bd.dims
       THEN [ok |-> FALSE, dsk |-> <<>>]
       ELSE [ok |-> TRUE,
             dsk |-> [k \in {Key(out, c) : c \in Range(RowMajor([q \in 1..Len(out_ind) |-> bd.dims[out_ind[q]]]))}
                      |-> Task(func,
                               [p \in DOMAIN argpairs |->
                                  LET cs == InputCoords(argpairs[p][2], out_ind, k[2], bd.dims)
                                  IN [r \in 1..Len(cs) |-> Key(argpairs[p][1], cs[r])]],
                               <<>>)]]

getem(name, blockshape, shape) ==
    [k \in {Key(name, c) : c \in Range(RowMajor([q \in 1..Len(shape) |-> CeilDiv(shape[q], blockshape[q])]))}
     |-> Task(Fn("getitem", <<>>), << <<RawKey(name)>> >>,
              [q \in 1..Len(shape) |-> <<k[2][q] * blockshape[q], (k[2][q] + 1) * blockshape[q]>>])]

\* -------------------------------------------------------------------- atop
\* the dict handed to top built from the shapes in place of the block counts
NumblocksDictShapes(arginds) ==
    [n \in {arginds[p][1].name : p \in DOMAIN arginds} |->
        arginds[CHOOSE p \in DOMAIN arginds : arginds[p][1].name = n][1].shape]

\* {a.name: a.numblocks}: a dict, the last pair of a name wins
NumblocksDict(arginds) ==
    [n \in {arginds[p][1].name : p \in DOMAIN arginds} |->
        numblocks(arginds[CHOOSE p \in DOMAIN arginds :
                            /\ arginds[p][1].name = n
                            /\ \A q \in DOMAIN arginds : arginds[q][1].name = n => q <= p][1])]

\* the output shape read off the first input that carries the label
AtopShapeFirst(out_ind, arginds) ==
    LET dims == broadcast_dimensions(arginds, [p \in DOMAIN arginds |-> arginds[p][1].shape])
        ok == dims.ok /\ \A l \in Range(out_ind) : l \in DOMAIN dims.dims
        first(l) == CHOOSE p \in DOMAIN arginds :
                       /\ l \in Range(arginds[p][2])
                       /\ \A q \in DOMAIN arginds : l \in Range(arginds[q][2]) => p <= q
    IN [ok |-> ok,
        kind |-> IF dims.ok THEN "KeyError" ELSE "IncompatibleShapes",
        val |-> IF ok
                THEN [q \in 1..Len(out_ind) |->
                        arginds[first(out_ind[q])][1].shape[Pos(arginds[first(out_ind[q])][2], out_ind[q])]]
                ELSE <<>>]

AtopShape(out_ind, arginds) ==
    LET dims == broadcast_dimensions(arginds, [p \in DOMAIN arginds |-> arginds[p][1].shape])
    IN [ok |-> dims.ok /\ \A l \in Range(out_ind) : l \in DOMAIN dims.dims,
        kind |-> IF dims.ok THEN "KeyError" ELSE "IncompatibleShapes",
        val |-> IF dims.ok /\ \A l \in Range(out_ind) : l \in DOMAIN dims.dims
                THEN [q \in 1..Len(out_ind) |-> dims.dims[out_ind[q]]] ELSE <<>>]

AtopBlockshape(out_ind, arginds) ==
    LET dims == broadcast_dimensions(arginds, [p \in DOMAIN arginds |-> arginds[p][1].blockshape])
    IN [ok |-> dims.ok /\ \A l \in Range(out_ind) : l \in DOMAIN dims.dims,
        kind |-> IF dims.ok THEN "KeyError" ELSE "IncompatibleShapes",
        val |-> IF dims.ok /\ \A l \in Range(out_ind) : l \in DOMAIN dims.dims
                THEN [q \in 1..Len(out_ind) |-> dims.dims[out_ind[q]]] ELSE <<>>]

AtopTop(func, out, out_ind, arginds) ==
    top(func, out, out_ind,
        [p \in DOMAIN arginds |-> <<arginds[p][1].name, arginds[p][2]>>],
        NumblocksDict(arginds))

NoArray == Array(<<>>, "", <<>>, <<>>)

\* atop naming its output after the baked-in parameter of the function
atopTokenised(func, out, out_ind, arginds) ==
    LET name == out \o "-" \o ToString(func[2][1][1])
        t == AtopTop(func, name, out_ind, arginds)
        sh == AtopShape(out_ind, arginds)
        bs == AtopBlockshape(out_ind, arginds)
    IN IF ~t.ok THEN [err |-> "IncompatibleShapes", built |-> FALSE, arr |-> NoArray]
       ELSE IF ~sh.ok THEN [err |-> sh.kind, built |-> TRUE, arr |-> NoArray]
       ELSE IF ~bs.ok THEN [err |-> bs.kind, built |-> TRUE, arr |-> NoArray]
       ELSE [err |-> "none", built |-> TRUE,
             arr |-> Array(merge(<<t.dsk>> \o [p \in DOMAIN arginds |-> arginds[p][1].dask]),
                           name, sh.val, bs.val)]

\* the outcome of atop: err is "none" or the kind of the exception raised,
\* built tells whether top had returned the new tasks when it was raised
atop(func, out, out_ind, arginds) ==
    LET t == AtopTop(func, out, out_ind, arginds)
        sh == AtopShape(out_ind, arginds)
        bs == AtopBlockshape(out_ind, arginds)
    IN IF ~t.ok THEN [err |-> "IncompatibleShapes", built |-> FALSE, arr |-> NoArray]
       ELSE IF ~sh.ok THEN [err |-> sh.kind, built |-> TRUE, arr |-> NoArray]
       ELSE IF ~bs.ok THEN [err |-> bs.kind, built |-> TRUE, arr |-> NoArray]
       ELSE [err |-> "none", built |-> TRUE,
             arr |-> Array(merge(<<t.dsk>> \o [p \in DOMAIN arginds |-> arginds[p][1].dask]),
                           out, sh.val, bs.val)]

\* ------------------------------------------------------------------- names
Name(i) == "x_" \o ToString(i)

\* ----------------------------------------------------------- array_to_dask
array_to_dask(shape, name, blockshape) ==
    Array(merge(<< [k \in {RawKey(name)} |-> Task(Fn("data", <<>>), <<>>, <<>>)],
                   getem(name, blockshape, shape) >>),
          name, shape, blockshape)

\* ----------------------------------------------------------------- actions
Shapes(n) == [1..n -> 1..(IF n = 1 THEN MaxShape ELSE MaxShape2)]
Blockshapes(n) == [1..n -> 1..MaxBlock]

Init ==
    /\ arrays = <<>>
    /\ count = 1
    /\ last = [op |-> "init"]
    /\ gen = [running |-> FALSE, issued |-> <<>>]
    /\ threads = <<>>
    /\ sink = <<>>
    /\ stored = {}

Wrap ==
    /\ Len(arrays) < MaxWraps
    /\ count <= MaxNames
    /\ \E n \in Ndims : \E shape \in Shapes(n), blockshape \in Blockshapes(n) :
          /\ \A k \in 1..n : blockshape[k] <= shape[k]
          /\ arrays' = Append(arrays, array_to_dask(shape, Name(count), blockshape))
          /\ count' = count + 1
          /\ last' = [op |-> "wrap", res |-> Len(arrays) + 1]
    /\ UNCHANGED <<gen, threads, sink, stored>>

ArgInds(args) == [p \in DOMAIN args |-> <<arrays[args[p][1]], args[p][2]>>]

\* the (array, labels) lists a caller can pass: one or two arrays of the pool,
\* each with as many distinct labels as it has dimensions
ArgChoices ==
    {a \in UNION {[1..m -> (DOMAIN arrays) \X UNION {Tuples(InLabels, n) : n \in Ndims \cup {0}}]
                  : m \in 1..2} :
        /\ \A p \in DOMAIN a : Len(a[p][2]) = ndim(arrays[a[p][1]])
        /\ \A p, q \in DOMAIN a : p < q => a[p][1] <= a[q][1]}

OutChoices == UNION {Tuples(InLabels, n) : n \in 0..2} \cup {<<"k">>}

\* what a call of atop leaves behind: the call, its outcome, and the pool size
\* before it; args[p] = <<index of the array in the pool, labels>>
Call(op, func, out, out_ind, args, r) ==
    [op |-> op, func |-> func, out |-> out, out_ind |-> out_ind, args |-> args,
     err |-> r.err, built |-> r.built, n |-> Len(arrays)]

Atop ==
    /\ arrays # <<>>
    /\ count <= MaxNames
    /\ \E func \in ActFuncs, out_ind \in OutChoices, args \in ArgChoices :
          \E r \in {atop(func, Name(count), out_ind, ArgInds(args))} :
             /\ arrays' = IF r.err = "none" THEN Append(arrays, r.arr) ELSE arrays
             /\ last' = Call("atop", func, Name(count), out_ind, args, r)
             /\ count' = count + 1
    /\ UNCHANGED <<gen, threads, sink, stored>>

\* ---------------------------------------------------------- lowering rules
FwdRange(n) == [k \in 1..n |-> k - 1]
\* tuple(range(n)) and tuple(range(n))[::-1] as labels
FwdLabels(n) == [k \in 1..n |-> ToString(k - 1)]
RevLabels(n) == [k \in 1..n |-> ToString(n - k)]
\* the members of a set of integers, ascending
RECURSIVE Sorted(_)
Sorted(S) == IF S = {} THEN <<>>
             ELSE LET m == CHOOSE v \in S : \A w \in S : v <= w IN <<m>> \o Sorted(S \ {m})
MaxOf(S) == CHOOSE v \in S : \A w \in S : w <= v

\* elemwise_array(expr, *data): ndim(expr) is the largest ndim of the data
elemwise_array(out, data) ==
    [func |-> Fn("compute_it", <<>>),
     out_ind |-> RevLabels(MaxOf({ndim(data[p]) : p \in DOMAIN data})),
     inds |-> [p \in DOMAIN data |-> RevLabels(ndim(data[p]))]]

Elemwise ==
    /\ arrays # <<>>
    /\ count <= MaxNames
    /\ \E m \in 1..2 : \E idx \in [1..m -> DOMAIN arrays] :
       LET c == elemwise_array(Name(count), [p \in 1..m |-> arrays[idx[p]]]) IN
       \E r \in {atop(c.func, Name(count), c.out_ind,
                      [p \in 1..m |-> <<arrays[idx[p]], c.inds[p]>>])} :
             /\ arrays' = IF r.err = "none" THEN Append(arrays, r.arr) ELSE arrays
             /\ last' = Call("elemwise", c.func, Name(count), c.out_ind,
                             [p \in 1..m |-> <<idx[p], c.inds[p]>>], r)
             /\ count' = count + 1
    /\ UNCHANGED <<gen, threads, sink, stored>>

\* compute_up(Reduction, Array): chunk phase, then aggregate phase
reduction_chunk(out, data) ==
    atop(Fn("chunk", <<>>), out, FwdLabels(ndim(data)), <<<<data, FwdLabels(ndim(data))>>>>)

\* the aggregate phase keeping the reduced axes in place of the others
reduction_aggKeepsAxis(out, tmp, nd, axis) ==
    atop(Fn("agg", <<Sorted(axis)>>), out,
         [q \in DOMAIN SelectSeq(FwdRange(nd), LAMBDA i : i \in axis) |->
             ToString(SelectSeq(FwdRange(nd), LAMBDA i : i \in axis)[q])],
         <<<<tmp, FwdLabels(nd)>>>>)

reduction_agg(out, tmp, nd, axis) ==
    atop(Fn("agg", <<Sorted(axis)>>), out,
         [q \in DOMAIN SelectSeq(FwdRange(nd), LAMBDA i : i \notin axis) |->
             ToString(SelectSeq(FwdRange(nd), LAMBDA i : i \notin axis)[q])],
         <<<<tmp, FwdLabels(nd)>>>>)

Reduce ==
    /\ arrays # <<>>
    /\ count + 1 <= MaxNames
    /\ \E idx \in DOMAIN arrays : \E axis \in (SUBSET (0..(ndim(arrays[idx]) - 1))) \ {{}} :
          \E t \in {reduction_chunk(Name(count), arrays[idx])} :
          \E r \in {IF t.err = "none"
                     THEN reduction_agg(Name(count + 1), t.arr, ndim(arrays[idx]), axis)
                     ELSE t} :
             /\ arrays' = IF r.err = "none" THEN Append(arrays, r.arr) ELSE arrays
             /\ last' = [op |-> "reduce", idx |-> idx, axis |-> axis, tmp |-> t.arr,
                          out |-> Name(count + 1), err |-> r.err, n |-> Len(arrays)]
             /\ count' = count + 2
    /\ UNCHANGED <<gen, threads, sink, stored>>

\* compute_up(Transpose, Array)
transpose(data, axes) ==
    [func |-> Fn("transpose", <<axes>>),
     out_ind |-> [k \in DOMAIN axes |-> ToString(axes[k])],
     inds |-> <<FwdLabels(ndim(data))>>]

Transpose ==
    /\ arrays # <<>>
    /\ count <= MaxNames
    /\ \E idx \in DOMAIN arrays :
       \E axes \in Tuples(0..(ndim(arrays[idx]) - 1), ndim(arrays[idx])) :
       LET c == transpose(arrays[idx], axes) IN
       \E r \in {atop(c.func, Name(count), c.out_ind, <<<<arrays[idx], c.inds[1]>>>>)} :
             /\ arrays' = IF r.err = "none" THEN Append(arrays, r.arr) ELSE arrays
             /\ last' = Call("transpose", c.func, Name(count), c.out_ind,
                             <<<<idx, c.inds[1]>>>>, r)
             /\ count' = count + 1
    /\ UNCHANGED <<gen, threads, sink, stored>>

\* compute_up(TensorDot, Array, Array)
alphabet == <<"a", "b", "c">>
ALPHABET == <<"A", "B", "C">>

\* list.remove: drops the first occurrence
Remove(s, v) ==
    LET k == CHOOSE q \in DOMAIN s : s[q] = v /\ \A r \in DOMAIN s : r < q => s[r] # v
    IN SubSeq(s, 1, k - 1) \o SubSeq(s, k + 1, Len(s))

\* the loop over zip(left_axes, right_axes): st = [out, right]
RECURSIVE TensorDotIndex(_, _, _, _)
TensorDotIndex(st, left_index, left_axes, right_axes) ==
    IF left_axes = <<>> \/ right_axes = <<>> THEN st
    ELSE LET l == Head(left_axes) + 1
             r == Head(right_axes) + 1
         IN TensorDotIndex(
                [out |-> Remove(Remove(st.out, st.right[r]), left_index[l]),
                 right |-> [st.right EXCEPT ![r] = left_index[l]]],
                left_index, Tail(left_axes), Tail(right_axes))

tensordot(lhs, rhs, left_axes, right_axes) ==
    LET left_index == SubSeq(alphabet, 1, ndim(lhs))
        right_index == SubSeq(ALPHABET, 1, ndim(rhs))
        st == TensorDotIndex([out |-> left_index \o right_index, right |-> right_index],
                             left_index, left_axes, right_axes)
    IN [func |-> Fn("many", <<left_axes, right_axes>>),
        out_ind |-> st.out, inds |-> <<left_index, st.right>>]

\* many(a, b): map(binop, a, b) pairs the two lists position by position
many(a, b) == [r \in 1..(IF Len(a) <= Len(b) THEN Len(a) ELSE Len(b)) |-> <<a[r], b[r]>>]

TensorDot ==
    /\ arrays # <<>>
    /\ count <= MaxNames
    /\ \E li, ri \in DOMAIN arrays :
       \E n \in 1..(IF ndim(arrays[li]) <= ndim(arrays[ri]) THEN ndim(arrays[li]) ELSE ndim(arrays[ri])) :
       \E left_axes \in Tuples(0..(ndim(arrays[li]) - 1), n),
          right_axes \in Tuples(0..(ndim(arrays[ri]) - 1), n) :
       LET c == tensordot(arrays[li], arrays[ri], left_axes, right_axes) IN
       \E r \in {atop(c.func, Name(count), c.out_ind,
                      <<<<arrays[li], c.inds[1]>>, <<arrays[ri], c.inds[2]>>>>)} :
             /\ arrays' = IF r.err = "none" THEN Append(arrays, r.arr) ELSE arrays
             /\ last' = Call("tensordot", c.func, Name(count), c.out_ind,
                             <<<<li, c.inds[1]>>, <<ri, c.inds[2]>>>>, r)
             /\ count' = count + 1
    /\ UNCHANGED <<gen, threads, sink, stored>>

Next == Wrap \/ Atop \/ Elemwise \/ Reduce \/ Transpose \/ TensorDot

Spec == Init /\ [][Next]_vars

\* --------------------------------------------------- names under threads
\* names is one generator object shared by every thread.  next(names) on a
\* generator that is executing in another thread raises ValueError
\* ("generator already executing"); otherwise the caller enters the generator
\* frame, where the interpreter may switch threads before the yield.
InitNames ==
    /\ arrays = <<>>
    /\ count = 1
    /\ last = [op |-> "init"]
    /\ gen = [running |-> FALSE, issued |-> <<>>]
    /\ threads = [t \in 1..NThreads |-> [pc |-> "idle", got |-> <<>>, failed |-> 0]]
    /\ sink = <<>>
    /\ stored = {}

Requests(t) == Len(threads[t].got) + threads[t].failed

NextCall(t) ==
    /\ threads[t].pc = "idle"
    /\ Requests(t) < MaxReq
    /\ IF gen.running
       THEN /\ threads' = [threads EXCEPT ![t].failed = @ + 1]
            /\ gen' = gen
       ELSE /\ threads' = [threads EXCEPT ![t].pc = "ingen"]
            /\ gen' = [gen EXCEPT !.running = TRUE]
    /\ UNCHANGED <<arrays, count, last, sink, stored>>

NextYield(t) ==
    /\ threads[t].pc = "ingen"
    /\ threads' = [threads EXCEPT ![t].pc = "idle", ![t].got = Append(@, Name(count))]
    /\ gen' = [running |-> FALSE, issued |-> Append(gen.issued, count)]
    /\ count' = count + 1
    /\ UNCHANGED <<arrays, last, sink, stored>>

NextNames == \E t \in 1..NThreads : NextCall(t) \/ NextYield(t)

SpecNames == InitNames /\ [][NextNames]_vars

\* ------------------------------------------------------ out-of-core store
\* store assigning one index past the end of its block
StoreSlicesOverlap(args, blockshape) ==
    [q \in 1..Len(args) |-> <<args[q] * blockshape[q], (args[q] + 1) * blockshape[q] + 1>>]

\* the slices store(x, *args) assigns to: slice(i*d, (i+1)*d) per dimension
StoreSlices(args, blockshape) ==
    [q \in 1..Len(args) |-> <<args[q] * blockshape[q], (args[q] + 1) * blockshape[q]>>]

\* the cells of an array of the given shape that a tuple of slices addresses
Cells(shape) == Range(RowMajor(shape))

Addressed(slices, shape) ==
    {g \in Cells(shape) : \A q \in 1..Len(slices) : slices[q][1] <= g[q] /\ g[q] < slices[q][2]}

\* insert_to_ooc: {('store-name', i, j): (store, (name, i, j), i, j)}
insert_to_ooc(arr) ==
    [k \in {Key("store-" \o arr.name, t[2]) : t \in Range(keys(arr, <<>>))}
     |-> Task(Fn("store", <<>>), << <<Key(arr.name, k[2])>> >>, StoreSlices(k[2], arr.blockshape))]

Cell(tag, c) == [tag |-> tag, c |-> c]

InitStore ==
    /\ \E n \in Ndims : \E shape \in Shapes(n), blockshape \in Blockshapes(n) :
          /\ \A k \in 1..n : blockshape[k] <= shape[k]
          /\ arrays = <<array_to_dask(shape, Name(1), blockshape)>>
          /\ \E rows \in 0..MaxRows :
                sink = [phase |-> "start",
                        shape |-> <<rows>> \o Tail(shape),
                        data |-> [g \in Cells(<<rows>> \o Tail(shape)) |-> Cell("old", <<>>)]]
    /\ count = 2
    /\ last = [op |-> "init"]
    /\ gen = [running |-> FALSE, issued |-> <<>>]
    /\ threads = <<>>
    /\ stored = {}

\* store_Array_in_ooc_data up to the call of the executor
StoreAppend ==
    /\ sink.phase = "start"
    /\ Tail(sink.shape) = Tail(arrays[1].shape)
    /\ LET shape == <<sink.shape[1] + arrays[1].shape[1]>> \o Tail(sink.shape)
       IN sink' = [phase |-> "run", shape |-> shape,
                   data |-> [g \in Cells(shape) |->
                               IF g \in DOMAIN sink.data THEN sink.data[g] ELSE Cell("new", <<>>)]]
    /\ UNCHANGED <<arrays, count, last, gen, threads, stored>>

\* the executor runs one store task; the lock makes the assignment one step
StoreTask ==
    /\ sink.phase = "run"
    /\ \E k \in DOMAIN insert_to_ooc(arrays[1]) \ stored :
          /\ sink' = [sink EXCEPT !.data =
                         [g \in DOMAIN sink.data |->
                            IF g \in Addressed(insert_to_ooc(arrays[1])[k].ind, sink.shape)
                            THEN Cell("blk", k[2]) ELSE sink.data[g]]]
          /\ stored' = stored \cup {k}
    /\ UNCHANGED <<arrays, count, last, gen, threads>>

NextStore == StoreAppend \/ StoreTask

SpecStore == InitStore /\ [][NextStore]_vars

\* ------------------------------------------------------------------ claims
CallOps == {"atop", "elemwise", "transpose", "tensordot"}

\* the keys of a graph that carry the array's own identifier
OwnKeys(a) == {k \in DOMAIN a.dask : Len(k) = 2 /\ k[1] = a.name}

\* the inputs of the last call, as atop received them
LastArgs == [p \in DOMAIN last.args |-> <<arrays[last.args[p][1]], last.args[p][2]>>]

\* the array the last call returned
LastArr == arrays[Len(arrays)]

\* C1: every array built by wrap and atop calls satisfies the block-grid
\* invariant: the keys of its graph that carry its own identifier are exactly
\* the keys that keys() enumerates from its own shape and blockshape, each
\* enumerated once.
BlockGridInvariant ==
    \A p \in DOMAIN arrays :
        /\ OwnKeys(arrays[p]) = Range(keys(arrays[p], <<>>))
        /\ Cardinality(Range(keys(arrays[p], <<>>))) = Len(keys(arrays[p], <<>>))

\* C4: a failing atop reports the one error kind 'incompatible shapes' before
\* any task is created, and returns no array.
FailFast ==
    (last.op \in CallOps /\ last.err # "none") =>
        /\ last.err = "IncompatibleShapes"
        /\ ~last.built
        /\ Len(arrays) = last.n

\* C5: under every interleaving of the threads each request for a generated
\* identifier completes with one, no identifier is handed out twice, and the
\* counter values handed out are strictly increasing.
NamesSafe ==
    /\ \A t \in DOMAIN threads : threads[t].failed = 0
    /\ \A t, u \in DOMAIN threads :
          \A i \in DOMAIN threads[t].got, j \in DOMAIN threads[u].got :
             (t # u \/ i # j) => threads[t].got[i] # threads[u].got[j]
    /\ \A i, j \in DOMAIN gen.issued : i < j => gen.issued[i] < gen.issued[j]

Success == last.op \in CallOps /\ last.err = "none"

\* the values the inputs of the last call contribute to label l
ShapeVals(l) ==
    UNION {{LastArgs[p][1].shape[q] : q \in {r \in DOMAIN LastArgs[p][2] : LastArgs[p][2][r] = l}}
           : p \in DOMAIN LastArgs}
BlockshapeVals(l) ==
    UNION {{LastArgs[p][1].blockshape[q] : q \in {r \in DOMAIN LastArgs[p][2] : LastArgs[p][2][r] = l}}
           : p \in DOMAIN LastArgs}
NumblocksVals(l) ==
    UNION {{numblocks(LastArgs[p][1])[q] : q \in {r \in DOMAIN LastArgs[p][2] : LastArgs[p][2][r] = l}}
           : p \in DOMAIN LastArgs}
LastLabels == UNION {Range(last.args[p][2]) : p \in DOMAIN last.args}

\* the block coordinates of an input with labels ind that the claim C2 names
\* for the output coordinate c
ExpectedCoords(ind, c) ==
    {cc \in [1..Len(ind) -> 0..(MaxShape + MaxShape2)] :
        \A q \in 1..Len(ind) :
            IF ind[q] \in Range(last.out_ind)
            THEN cc[q] = c[Pos(last.out_ind, ind[q])]
            ELSE cc[q] < MaxOf(NumblocksVals(ind[q]))}

\* C2: the task at every output coordinate c references, for every input,
\* exactly the blocks whose coordinate equals c at the position of the label
\* in out_ind on the dimensions that the output keeps, and that range over
\* all 0..numblocks[label]-1 on the contracted dimensions, each once; with no
\* contracted dimension (elementwise, transpose) it is one block per input.
TaskReferences ==
    Success =>
        \A k \in OwnKeys(LastArr) : \A p \in DOMAIN LastArgs :
            LET refs == LastArr.dask[k].args[p]
            IN /\ Range(refs) = {Key(LastArgs[p][1].name, cc) : cc \in ExpectedCoords(LastArgs[p][2], k[2])}
               /\ Len(refs) = Cardinality(Range(refs))
               /\ (last.op \in {"elemwise", "transpose"} => Len(refs) = 1)

TaskReferencesWitness ==
    /\ Success
    /\ last.op = "atop"
    /\ Len(last.args) = 2
    /\ \E p \in DOMAIN LastArgs : \E l \in Range(LastArgs[p][2]) :
          l \notin Range(last.out_ind) /\ MaxOf(NumblocksVals(l)) > 1
    /\ \E k \in OwnKeys(LastArr) : \E q \in DOMAIN k[2] : k[2][q] > 0

\* C3: the output shape on a label depends only on the set of values the
\* inputs contribute, not on their order: the common value if all are equal,
\* the one value above 1 if the others are 1; two distinct values above 1
\* make atop fail.
ShapeReconciliation ==
    last.op \in CallOps =>
        /\ (\E l \in LastLabels : Cardinality(ShapeVals(l) \ {1}) >= 2) => last.err # "none"
        /\ last.err = "none" =>
              \A q \in DOMAIN last.out_ind :
                  /\ LastArr.shape[q] \in ShapeVals(last.out_ind[q])
                  /\ ShapeVals(last.out_ind[q]) \subseteq {1, LastArr.shape[q]}
        /\ AtopShape(last.out_ind, [p \in DOMAIN LastArgs |-> LastArgs[Len(LastArgs) + 1 - p]])
               = AtopShape(last.out_ind, LastArgs)

ShapeReconciliationWitness ==
    /\ Success
    /\ Len(last.args) = 2
    /\ LastArgs[1][1].shape = <<1, 2>>
    /\ LastArgs[2][1].shape = <<2, 2>>
    /\ LastArgs[1][2] = LastArgs[2][2]
    /\ last.out_ind = LastArgs[1][2]
    /\ LastArr.shape = <<2, 2>>

\* C10 as stated: whenever blockshape reconciliation and the block-count
\* agreement succeed, shape reconciliation succeeds.
BlockshapeStronger ==
    last.op \in CallOps =>
        ((\A l \in LastLabels : Reconcilable(BlockshapeVals(l)) /\ Reconcilable(NumblocksVals(l)))
            => \A l \in LastLabels : Reconcilable(ShapeVals(l)))

\* C10 amended: when on every label the inputs have one and the same
\* blockshape and one and the same block count, and every shape is a whole
\* number of blocks, shape reconciliation succeeds.
UniformBlocksImplyShape ==
    last.op \in CallOps =>
        ((/\ \A l \in LastLabels : Cardinality(BlockshapeVals(l)) = 1 /\ Cardinality(NumblocksVals(l)) = 1
          /\ \A p \in DOMAIN LastArgs : \A q \in DOMAIN LastArgs[p][1].shape :
                LastArgs[p][1].shape[q] % LastArgs[p][1].blockshape[q] = 0)
            => AtopShape(last.out_ind, LastArgs).kind # "IncompatibleShapes")

UniformBlocksWitness ==
    /\ last.op \in CallOps
    /\ Len(last.args) = 2
    /\ last.args[1][1] # last.args[2][1]
    /\ \E l \in LastLabels : \A p \in DOMAIN last.args : l \in Range(last.args[p][2])
    /\ \A l \in LastLabels : Cardinality(BlockshapeVals(l)) = 1 /\ NumblocksVals(l) = {2}
    /\ \A p \in DOMAIN LastArgs : \A q \in DOMAIN LastArgs[p][1].shape :
          LastArgs[p][1].shape[q] % LastArgs[p][1].blockshape[q] = 0
    /\ last.err = "none"

\* the keys a call of atop creates
NewKeys(r) == {k \in DOMAIN r.arr.dask : Len(k) = 2 /\ k[1] = r.arr.name}

LexLess(a, b) == \E k \in DOMAIN a : a[k] < b[k] /\ \A j \in 1..(k - 1) : a[j] = b[j]

\* the 0-based axes of an nd-dimensional array outside a set of axes, ascending
Surviving(nd, axes) == SelectSeq(FwdRange(nd), LAMBDA i : i \notin axes)

\* C8: the chunk phase creates one task per input block on the unchanged
\* grid, each reading that one block; the aggregate phase creates one task
\* per block coordinate of the surviving axes, gathering every chunk block
\* with these surviving coordinates in ascending order over the reduced axes;
\* shape and blockshape of the result are the input's without the reduced axes.
TwoPhaseReduction ==
    (last.op = "reduce" /\ last.err = "none") =>
        LET data == arrays[last.idx]
            tmp == last.tmp
            keep == Surviving(ndim(data), last.axis)
            grid == Range(RowMajor(numblocks(data)))
        IN /\ OwnKeys(tmp) = {Key(tmp.name, c) : c \in grid}
           /\ \A c \in grid : tmp.dask[Key(tmp.name, c)].args = << <<Key(data.name, c)>> >>
           /\ tmp.shape = data.shape /\ tmp.blockshape = data.blockshape
           /\ OwnKeys(LastArr) =
                 {Key(LastArr.name, c) :
                     c \in Range(RowMajor([q \in 1..Len(keep) |-> numblocks(data)[keep[q] + 1]]))}
           /\ \A k \in OwnKeys(LastArr) :
                 LET g == LastArr.dask[k].args[1]
                 IN /\ Range(g) = {Key(tmp.name, cc) : cc \in
                                     {c \in grid : \A q \in 1..Len(keep) : c[keep[q] + 1] = k[2][q]}}
                    /\ \A i, j \in DOMAIN g : i < j => LexLess(g[i][2], g[j][2])
           /\ LastArr.shape = [q \in 1..Len(keep) |-> data.shape[keep[q] + 1]]
           /\ LastArr.blockshape = [q \in 1..Len(keep) |-> data.blockshape[keep[q] + 1]]
           /\ tmp.dask = [k \in DOMAIN tmp.dask |-> LastArr.dask[k]]

TwoPhaseReductionWitness ==
    /\ last.op = "reduce"
    /\ last.err = "none"
    /\ numblocks(arrays[last.idx]) = <<2, 2>>
    /\ last.axis = {0}
    /\ Cardinality(OwnKeys(LastArr)) = 2

\* C9: the output labels of a tensordot are the remaining left labels then
\* the remaining right labels, shape and blockshape are read off them, and
\* for every output block the left and right blocks are paired so that each
\* pair agrees on every contracted label and every combination of contracted
\* block coordinates occurs exactly once (for axes of equal length, as a
\* tensordot requires).
TensorDotPairing ==
    (/\ last.op = "tensordot"
     /\ last.err = "none"
     /\ \A m \in DOMAIN last.func[2][1] :
           LastArgs[1][1].shape[last.func[2][1][m] + 1] = LastArgs[2][1].shape[last.func[2][2][m] + 1]) =>
        LET lhs == LastArgs[1][1]
            rhs == LastArgs[2][1]
            la == last.func[2][1]
            ra == last.func[2][2]
            lkeep == Surviving(ndim(lhs), Range(la))
            rkeep == Surviving(ndim(rhs), Range(ra))
        IN /\ last.out_ind = [q \in 1..Len(lkeep) |-> alphabet[lkeep[q] + 1]]
                             \o [q \in 1..Len(rkeep) |-> ALPHABET[rkeep[q] + 1]]
           /\ LastArr.shape = [q \in 1..Len(lkeep) |-> lhs.shape[lkeep[q] + 1]]
                              \o [q \in 1..Len(rkeep) |-> rhs.shape[rkeep[q] + 1]]
           /\ LastArr.blockshape = [q \in 1..Len(lkeep) |-> lhs.blockshape[lkeep[q] + 1]]
                                   \o [q \in 1..Len(rkeep) |-> rhs.blockshape[rkeep[q] + 1]]
           /\ \A k \in OwnKeys(LastArr) :
                 LET pairs == many(LastArr.dask[k].args[1], LastArr.dask[k].args[2])
                     combo(r) == [m \in DOMAIN la |-> pairs[r][1][2][la[m] + 1]]
                 IN /\ \A r \in DOMAIN pairs : \A m \in DOMAIN la :
                          pairs[r][1][2][la[m] + 1] = pairs[r][2][2][ra[m] + 1]
                    /\ {combo(r) : r \in DOMAIN pairs} =
                          Range(RowMajor([m \in DOMAIN la |-> MaxOf(NumblocksVals(alphabet[la[m] + 1]))]))
                    /\ \A r, u \in DOMAIN pairs : r # u => combo(r) # combo(u)

\* the index tuples a store task addresses, in a box that holds every block
StoreBox(arr) == [q \in 1..ndim(arr) |-> (numblocks(arr)[q] + 1) * arr.blockshape[q]]

\* what a cell of the sink holds before any store task has run
Untouched(g) == IF g[1] < sink.shape[1] - arrays[1].shape[1] THEN Cell("old", <<>>) ELSE Cell("new", <<>>)

\* C6: the store tasks of an array address pairwise disjoint index ranges,
\* so a cell is written by at most one task and the contents of the sink
\* after all tasks ran do not depend on the order in which they ran.
StoreRangesDisjoint ==
    sink.phase = "run" =>
        LET arr == arrays[1]
            tasks == insert_to_ooc(arr)
            blockOf(g) == [q \in 1..ndim(arr) |-> g[q] \div arr.blockshape[q]]
            final(g) == IF Key("store-" \o arr.name, blockOf(g)) \in DOMAIN tasks
                        THEN Cell("blk", blockOf(g)) ELSE Untouched(g)
        IN /\ \A k1, k2 \in DOMAIN tasks :
                 k1 # k2 => Addressed(tasks[k1].ind, StoreBox(arr))
                              \cap Addressed(tasks[k2].ind, StoreBox(arr)) = {}
           /\ \A g \in DOMAIN sink.data : sink.data[g] \in {Untouched(g), final(g)}
           /\ stored = DOMAIN tasks => \A g \in DOMAIN sink.data : sink.data[g] = final(g)

StoreRangesWitness ==
    /\ sink.phase = "run"
    /\ stored = DOMAIN insert_to_ooc(arrays[1])
    /\ numblocks(arrays[1]) = <<2, 2>>
    /\ sink.shape[1] > arrays[1].shape[1]

====
